---------------------------- MODULE Spec2Model ----------------------------
(***************************************************************************)
(* A model of the CRM GraphQL data layer: the Customer, Product and Order  *)
(* tables of crm/models.py and the four mutations of crm/schema.py.        *)
(*                                                                         *)
(* Conventions                                                             *)
(*   - an optional value (a GraphQL argument that may be omitted, Python   *)
(*     None) is a set with at most one element: {} is None, {v} is v;      *)
(*   - money is counted in hundredths (199.99 is 19999);                   *)
(*   - a phone is a sequence of one-character strings, so that the regular *)
(*     expression of Customer.phone can be evaluated on it;                *)
(*   - a GraphQL ID is a string; a primary key is an integer;              *)
(*   - a response is a record: result (the created entities, <<>> for an   *)
(*     absent field), message, errors, and raised (the exception that      *)
(*     left the handler uncaught, "none" otherwise).                       *)
(***************************************************************************)
EXTENDS Integers, Sequences, FiniteSets, TLC

VARIABLES
    customers,   \* rows of crm_customer (committed)
    products,    \* rows of crm_product
    orders,      \* rows of crm_order, each with its crm_order_products set
    last,        \* the last request handled and its response
    phonePool,   \* the phone strings requests are drawn from
    procs,       \* the requests being handled concurrently, one per worker
    clock        \* the current time, timezone.now()

vars == <<customers, products, orders, last, phonePool, procs, clock>>

-----------------------------------------------------------------------------
(* Bounds *)

MaxCustomers == 3
MaxProducts == 3
MaxOrders == 1
MaxBatch == 3
MaxIds == 2
MaxTime == 2
MaxDigits == 16
MaxProcs == 2
MaxConcBatch == 2

-----------------------------------------------------------------------------
(* Generic helpers *)

None == {}

Some(v) == {v}

TheValue(opt) == CHOOSE v \in opt : TRUE

SetMax(S) == IF S = {} THEN 0 ELSE CHOOSE m \in S : \A n \in S : n <= m

NextId(rows) == SetMax({r.id : r \in rows}) + 1

Range(s) == {s[i] : i \in 1..Len(s)}

RECURSIVE Join(_, _)
Join(msgs, sep) ==
    IF Len(msgs) = 0 THEN ""
    ELSE IF Len(msgs) = 1 THEN msgs[1]
    ELSE msgs[1] \o sep \o Join(Tail(msgs), sep)

\* A total that takes the price of one product only.
SumPricesOfOne(rows) ==
    IF rows = {} THEN 0 ELSE (CHOOSE x \in rows : TRUE).price

RECURSIVE SumPrices(_)
SumPrices(rows) ==
    IF rows = {} THEN 0
    ELSE LET r == CHOOSE x \in rows : TRUE
         IN  r.price + SumPrices(rows \ {r})

Response(op, input, result, message, errors, raised) ==
    [op |-> op, input |-> input, result |-> result, message |-> message,
     errors |-> errors, raised |-> raised]

\* No request is being handled: the server waits for the next one.
NoRequest == Response("none", <<>>, <<>>, None, <<>>, "none")

-----------------------------------------------------------------------------
(* Customer.phone: RegexValidator(r'^(\+?\d{10,15}|\d{3}-\d{3}-\d{4})$')   *)

DigitChars == <<"1", "2", "3", "4", "5", "6", "7", "8", "9", "0">>

IsDigit(c) == c \in Range(DigitChars)

AllDigits(s, from, to) == \A i \in from..to : IsDigit(s[i])

PhoneMinDigits == 10
PhoneMaxDigits == 15
PhoneMaxLength == 20

\* A pattern whose '+' is not optional: \+\d{10,15}
MatchPlainSigned(s) ==
    /\ Len(s) > 0
    /\ s[1] = "+"
    /\ Len(s) - 1 >= PhoneMinDigits
    /\ Len(s) - 1 <= PhoneMaxDigits
    /\ AllDigits(s, 2, Len(s))

\* \+?\d{10,15}
MatchPlain(s) ==
    LET start == IF Len(s) > 0 /\ s[1] = "+" THEN 2 ELSE 1
        n == Len(s) - start + 1
    IN  /\ n >= PhoneMinDigits
        /\ n <= PhoneMaxDigits
        /\ AllDigits(s, start, Len(s))

\* \d{3}-\d{3}-\d{4}
MatchDashed(s) ==
    /\ Len(s) = 12
    /\ AllDigits(s, 1, 3)
    /\ s[4] = "-"
    /\ AllDigits(s, 5, 7)
    /\ s[8] = "-"
    /\ AllDigits(s, 9, 12)

\* ^( ... | ... )$ under re.search: "$" matches at the end of the string and
\* also just before a newline that ends the string.
PhoneRegexMatches(s) ==
    LET body == IF Len(s) > 0 /\ s[Len(s)] = "\n"
                THEN SubSeq(s, 1, Len(s) - 1) ELSE s
    IN  \/ MatchPlain(s) \/ MatchDashed(s)
        \/ MatchPlain(body) \/ MatchDashed(body)

PhoneFormatMessage == "Phone must be in +1234567890 or 123-456-7890 format"

\* The validators of the phone field, run on a non-empty value: the regex,
\* then the MaxLengthValidator CharField adds for max_length=20.
PhoneErrors(s) ==
    (IF PhoneRegexMatches(s) THEN <<>> ELSE <<PhoneFormatMessage>>)
    \o (IF Len(s) <= PhoneMaxLength THEN <<>>
        ELSE <<"Ensure this value has at most 20 characters (it has "
               \o ToString(Len(s)) \o ").">>)

\* "+1234567890", "123-456-7890" and "12345".
SeedPhone == <<"+", "1", "2", "3", "4", "5", "6", "7", "8", "9", "0">>

DashedPhone == <<"1", "2", "3", "-", "4", "5", "6", "-", "7", "8", "9", "0">>

ShortPhone == <<"1", "2", "3", "4", "5">>

\* The phone strings the validation is tried on: a run of digits with and
\* without a sign before it and a character after it, the dashed form with
\* groups one digit shorter and longer than asked, a letter among the
\* digits, and a string longer than the column.
Digits(k) == [i \in 1..k |-> DigitChars[((i - 1) % 10) + 1]]

Prefixes == {<<>>, <<"+">>, <<"-">>, <<"x">>, <<"+", "+">>}

Suffixes == {<<>>, <<"\n">>, <<"x">>, <<"\n", "\n">>}

Separators == {"-", "+"}

PlainCandidates ==
    {pre \o Digits(k) \o suf :
        pre \in Prefixes, k \in 0..MaxDigits, suf \in Suffixes}

DashedCandidates ==
    {pre \o Digits(a) \o <<s1>> \o Digits(b) \o <<s2>> \o Digits(c) \o suf :
        pre \in {<<>>, <<"+">>}, a \in 2..4, s1 \in Separators, b \in 2..4,
        s2 \in Separators, c \in 3..5, suf \in {<<>>, <<"\n">>}}

LetterCandidates ==
    {[Digits(k) EXCEPT ![j] = "x"] : k \in 10..12, j \in {1, 6, 10}}

PhoneCandidates ==
    (PlainCandidates \cup DashedCandidates \cup LetterCandidates
     \cup {Digits(PhoneMaxLength + 1), SeedPhone, DashedPhone, ShortPhone})
    \ {<<>>}

-----------------------------------------------------------------------------
(* Customer: validation and storage *)

\* EmailField's validator, as the set of well-formed addresses among the
\* strings requests carry.
WellFormedEmails == {"test@example.com", "a@x.com", "b@x.com"}

BlankMessage == "This field cannot be blank."

EmailExists(rows, email) == \E r \in rows : r.email = email

\* Model.full_clean() of a Customer: clean_fields() over name, email, phone
\* (a blank=True field holding an empty value is skipped), then
\* validate_unique() for the fields that passed.  Returns e.messages.
CustomerFullClean(rows, name, email, phone) ==
    LET nameErrs == IF name = "" THEN <<BlankMessage>> ELSE <<>>
        emailErrs == IF email = "" THEN <<BlankMessage>>
                     ELSE IF email \notin WellFormedEmails
                          THEN <<"Enter a valid email address.">>
                          ELSE <<>>
        phoneErrs == IF phone = None \/ phone = Some(<<>>) THEN <<>>
                     ELSE PhoneErrors(TheValue(phone))
        uniqueErrs == IF emailErrs = <<>> /\ EmailExists(rows, email)
                      THEN <<"Customer with this Email already exists.">>
                      ELSE <<>>
    IN  nameErrs \o emailErrs \o phoneErrs \o uniqueErrs

\* An email column without unique=True.
InsertCustomerNotUnique(rows, name, email, phone) ==
    IF phone = None
    THEN [ok |-> FALSE, rows |-> rows, row |-> <<>>]
    ELSE LET row == [id |-> NextId(rows), name |-> name, email |-> email,
                     phone |-> TheValue(phone)]
         IN  [ok |-> TRUE, rows |-> rows \cup {row}, row |-> <<row>>]

\* INSERT INTO crm_customer: email is UNIQUE, and phone (a CharField without
\* null=True) is NOT NULL.  Returns the new table, or the exception.
InsertCustomer(rows, name, email, phone) ==
    IF phone = None \/ EmailExists(rows, email)
    THEN [ok |-> FALSE, rows |-> rows, row |-> <<>>]
    ELSE LET row == [id |-> NextId(rows), name |-> name, email |-> email,
                     phone |-> TheValue(phone)]
         IN  [ok |-> TRUE, rows |-> rows \cup {row}, row |-> <<row>>]

Names == {"", "Ann"}

Emails == {"", "bad", "a@x.com", "b@x.com", "test@example.com"}

CustomerInputs == [name : Names, email : Emails,
                   phone : {None} \cup {Some(p) : p \in phonePool}]

\* A mutate without the pre-check of line 60, which leaves the duplicate to
\* full_clean().
CreateCustomerMutateNoPrecheck(rows, input) ==
    LET errs == CustomerFullClean(rows, input.name, input.email, input.phone)
        ins == InsertCustomer(rows, input.name, input.email, input.phone)
    IN  IF errs # <<>>
        THEN [rows |-> rows,
              resp |-> Response("CreateCustomer", input, <<>>, None, errs,
                                "none")]
        ELSE IF ~ins.ok
        THEN [rows |-> rows,
              resp |-> Response("CreateCustomer", input, <<>>, None, <<>>,
                                "IntegrityError")]
        ELSE [rows |-> ins.rows,
              resp |-> Response("CreateCustomer", input, ins.row,
                                Some("Customer created successfully"),
                                <<>>, "none")]

\* CreateCustomer.mutate: the table and the response it leaves.
CreateCustomerMutate(rows, input) ==
    LET errs == CustomerFullClean(rows, input.name, input.email, input.phone)
        ins == InsertCustomer(rows, input.name, input.email, input.phone)
    IN  IF EmailExists(rows, input.email)
        THEN [rows |-> rows,
              resp |-> Response("CreateCustomer", input, <<>>, None,
                                <<"Email already exists">>, "none")]
        ELSE IF errs # <<>>
        THEN [rows |-> rows,
              resp |-> Response("CreateCustomer", input, <<>>, None, errs,
                                "none")]
        ELSE IF ~ins.ok
        THEN [rows |-> rows,
              resp |-> Response("CreateCustomer", input, <<>>, None, <<>>,
                                "IntegrityError")]
        ELSE [rows |-> ins.rows,
              resp |-> Response("CreateCustomer", input, ins.row,
                                Some("Customer created successfully"),
                                <<>>, "none")]

CreateCustomer ==
    /\ last = NoRequest
    /\ \E input \in CustomerInputs :
           LET out == CreateCustomerMutate(customers, input)
           IN  /\ Cardinality(out.rows) <= MaxCustomers
               /\ customers' = out.rows
               /\ last' = out.resp
    /\ UNCHANGED <<products, orders, phonePool, procs, clock>>

\* The loop of BulkCreateCustomers.mutate from row i on.  rows is the table
\* as the open transaction sees it; an exception other than ValidationError
\* leaves the loop with the rows still to be rolled back by the caller.
RECURSIVE BulkLoop(_, _, _, _, _)
BulkLoop(input, i, rows, created, errors) ==
    IF i > Len(input)
    THEN [rows |-> rows, created |-> created, errors |-> errors,
          raised |-> "none"]
    ELSE LET d == input[i]
             errs == CustomerFullClean(rows, d.name, d.email, d.phone)
             ins == InsertCustomer(rows, d.name, d.email, d.phone)
         IN  IF EmailExists(rows, d.email)
             THEN BulkLoop(input, i + 1, rows, created,
                           Append(errors,
                                  d.email \o ": Email already exists"))
             ELSE IF errs # <<>>
             THEN BulkLoop(input, i + 1, rows, created,
                           Append(errors,
                                  d.email \o ": " \o Join(errs, ", ")))
             ELSE IF ~ins.ok
             THEN [rows |-> rows, created |-> created, errors |-> errors,
                   raised |-> "IntegrityError"]
             ELSE BulkLoop(input, i + 1, ins.rows, created \o ins.row,
                           errors)

\* BulkCreateCustomers.mutate under @transaction.atomic: an exception that
\* leaves the function rolls every insert of the batch back.
BulkCreateCustomersMutate(rows, input) ==
    LET out == BulkLoop(input, 1, rows, <<>>, <<>>)
    IN  IF out.raised # "none"
        THEN [rows |-> rows,
              resp |-> Response("BulkCreateCustomers", input, <<>>, None,
                                <<>>, out.raised)]
        ELSE [rows |-> out.rows,
              resp |-> Response("BulkCreateCustomers", input, out.created,
                                None, out.errors, "none")]

BulkRowInputs ==
    {d \in CustomerInputs : /\ d.name # ""
                            /\ d.email \in WellFormedEmails
                            /\ d.phone # Some(<<>>)}

BulkInputs == UNION {[1..n -> BulkRowInputs] : n \in 0..MaxBatch}

BulkCreateCustomers ==
    /\ last = NoRequest
    /\ \E input \in BulkInputs :
           LET out == BulkCreateCustomersMutate(customers, input)
           IN  /\ Cardinality(out.rows) <= MaxCustomers
               /\ customers' = out.rows
               /\ last' = out.resp
    /\ UNCHANGED <<products, orders, phonePool, procs, clock>>

-----------------------------------------------------------------------------
(* Product *)

\* MinValueValidator(0.01) compares the Decimal price with the float 0.01,
\* which is slightly above one hundredth: a price of exactly 0.01 fails it.
PriceBelowMinimum(price) == price <= 1

\* Model.full_clean() of a Product.
ProductFullClean(name, price, stock) ==
    (IF name = "" THEN <<BlankMessage>> ELSE <<>>)
    \o (IF PriceBelowMinimum(price)
        THEN <<"Ensure this value is greater than or equal to 0.01.">>
        ELSE <<>>)
    \o (IF stock < 0
        THEN <<"Ensure this value is greater than or equal to 0.">>
        ELSE <<>>)

\* CreateProduct.mutate
CreateProductMutate(rows, input) ==
    LET stock == IF input.stock = None THEN 0 ELSE TheValue(input.stock)
        errs == ProductFullClean(input.name, input.price, stock)
        row == [id |-> NextId(rows), name |-> input.name,
                price |-> input.price, stock |-> stock]
    IN  IF input.price <= 0
        THEN [rows |-> rows,
              resp |-> Response("CreateProduct", input, <<>>, None,
                                <<"Price must be positive">>, "none")]
        ELSE IF input.stock # None /\ TheValue(input.stock) < 0
        THEN [rows |-> rows,
              resp |-> Response("CreateProduct", input, <<>>, None,
                                <<"Stock cannot be negative">>, "none")]
        ELSE IF errs # <<>>
        THEN [rows |-> rows,
              resp |-> Response("CreateProduct", input, <<>>, None, errs,
                                "none")]
        ELSE [rows |-> rows \cup {row},
              resp |-> Response("CreateProduct", input, <<row>>, None, <<>>,
                                "none")]

ProductInputs == [name : {"", "Pen"}, price : {-500, 0, 1, 250},
                  stock : {None, Some(-1), Some(0)}]

CreateProduct ==
    /\ last = NoRequest
    /\ \E input \in ProductInputs :
           LET out == CreateProductMutate(products, input)
           IN  /\ Cardinality(out.rows) <= MaxProducts
               /\ products' = out.rows
               /\ last' = out.resp
    /\ UNCHANGED <<customers, orders, phonePool, procs, clock>>

-----------------------------------------------------------------------------
(* Order *)

\* The conversion of a GraphQL ID to the integer primary key it is compared
\* with; an ID that is not a number makes the lookup raise ValueError.
IdStrings == {"1", "2", "3", "99", "abc"}

IsNumber(id) == id \in {"1", "2", "3", "99"}

ToPk(id) == CASE id = "1" -> 1 [] id = "2" -> 2 [] id = "3" -> 3
              [] id = "99" -> 99

\* Product.objects.filter(id__in=product_ids): a set of rows.
ProductsIn(rows, ids) ==
    {r \in rows : \E i \in 1..Len(ids) : r.id = ToPk(ids[i])}

\* Order.save() followed by the INSERT: a total that is falsy makes save()
\* read self.products of a row that has no id yet, which raises ValueError;
\* order_date is auto_now_add, so pre_save replaces whatever the instance
\* carries by the current time.
SaveOrder(rows, customer, total, orderDate, now) ==
    IF total = 0
    THEN [ok |-> FALSE, rows |-> rows, row |-> <<>>]
    ELSE LET row == [id |-> NextId(rows), customer |-> customer,
                     products |-> {}, total_amount |-> total,
                     order_date |-> now]
         IN  [ok |-> TRUE, rows |-> rows \cup {row}, row |-> <<row>>]

\* order.products.set(products)
SetOrderProducts(rows, orderId, productRows) ==
    {IF r.id = orderId THEN [r EXCEPT !.products = {q.id : q \in productRows}]
     ELSE r : r \in rows}

\* CreateOrder.mutate; now is timezone.now() at the time of the call.
CreateOrderMutate(custRows, prodRows, rows, input, now) ==
    LET Fail(errors, raised) ==
            [rows |-> rows,
             resp |-> Response("CreateOrder", input, <<>>, None, errors,
                               raised)]
        ids == input.product_ids
    IN  IF ~IsNumber(input.customer_id)
        THEN Fail(<<>>, "ValueError")
        ELSE IF ~\E c \in custRows : c.id = ToPk(input.customer_id)
        THEN Fail(<<"Invalid customer ID">>, "none")
        ELSE IF \E i \in 1..Len(ids) : ~IsNumber(ids[i])
        THEN Fail(<<>>, "ValueError")
        ELSE
        LET found == ProductsIn(prodRows, ids)
            total == SumPrices(found)
            orderDate == IF input.order_date # None
                         THEN TheValue(input.order_date) ELSE now
            saved == SaveOrder(rows, ToPk(input.customer_id), total,
                               orderDate, now)
            after == SetOrderProducts(saved.rows, saved.row[1].id, found)
        IN  IF found = {}
            THEN Fail(<<"No valid products found">>, "none")
            ELSE IF Cardinality(found) # Len(ids)
            THEN Fail(<<"One or more product IDs are invalid">>, "none")
            ELSE IF ~saved.ok
            THEN Fail(<<>>, "ValueError")
            ELSE [rows |-> after,
                  resp |-> Response("CreateOrder", input,
                                    <<CHOOSE r \in after :
                                          r.id = saved.row[1].id>>,
                                    None, <<>>, "none")]

Times == 1..MaxTime

OrderInputs ==
    [customer_id : {"1", "2", "abc"},
     product_ids : UNION {[1..n -> IdStrings] : n \in 0..MaxIds},
     order_date : {None} \cup {Some(t) : t \in Times}]

CreateOrder ==
    /\ last = NoRequest
    /\ \E input \in OrderInputs :
           LET out == CreateOrderMutate(customers, products, orders, input,
                                        clock)
           IN  /\ Cardinality(out.rows) <= MaxOrders
               /\ orders' = out.rows
               /\ last' = out.resp
    /\ UNCHANGED <<customers, products, phonePool, procs, clock>>

-----------------------------------------------------------------------------
(* Initial state: the database as seed_db.py leaves it *)

SeedCustomers ==
    {[id |-> 1, name |-> "Test User", email |-> "test@example.com",
      phone |-> SeedPhone]}

SeedProducts ==
    {[id |-> 1, name |-> "Phone", price |-> 19999, stock |-> 20],
     [id |-> 2, name |-> "Tablet", price |-> 29999, stock |-> 15]}

-----------------------------------------------------------------------------
(* Concurrent requests.  Each worker handles one request, one database     *)
(* statement per step.  Outside transaction.atomic every statement commits *)
(* on its own (autocommit); inside it the inserts stay in the worker's     *)
(* pending set until the function returns.                                 *)

Procs == 1..MaxProcs

IdleProc ==
    [kind |-> "none", pc |-> "idle", input |-> <<>>, i |-> 0,
     pending |-> {}, created |-> <<>>, errors |-> <<>>, found |-> {},
     order |-> 0, resp |-> NoRequest]

\* The rows worker p's statements see: the committed ones and its own.
Visible(p) == customers \cup procs[p].pending

AllCustomerRows == customers \cup UNION {procs[q].pending : q \in Procs}

\* Another open transaction holds an uncommitted row with this email: the
\* unique index makes the insert wait for it, or give up on a lock timeout.
Blocked(p, email) ==
    \E q \in Procs \ {p} : EmailExists(procs[q].pending, email)

Done(p, result, message, errors, raised) ==
    [procs[p] EXCEPT !.pc = "done", !.pending = {},
                     !.resp = Response(procs[p].kind, procs[p].input, result,
                                       message, errors, raised)]

\* The requests that race: for a fresh email and for the seeded one.
ConcCustomerInputs ==
    {d \in CustomerInputs : /\ d.name # ""
                            /\ d.email \in {"a@x.com", "test@example.com"}
                            /\ d.phone # None}

ConcBulkInputs ==
    UNION {[1..n -> ConcCustomerInputs] : n \in 0..MaxConcBatch}

ConcOrderInputs ==
    {d \in OrderInputs : /\ d.customer_id = "1"
                         /\ d.product_ids \in {<<"1">>, <<"1", "2">>,
                                                <<"1", "99">>}}

StartRequest(p, kind, input) ==
    /\ procs[p].pc = "idle"
    /\ procs' = [procs EXCEPT ![p] =
                    [IdleProc EXCEPT !.kind = kind, !.input = input,
                                     !.pc = "check", !.i = 1]]
    /\ UNCHANGED <<customers, products, orders, last, phonePool, clock>>

\* CreateCustomer.mutate, line 60: the existence pre-check.
CustomerCheck(p) ==
    /\ procs[p].kind = "CreateCustomer" /\ procs[p].pc = "check"
    /\ procs' = [procs EXCEPT ![p] =
                    IF EmailExists(customers, procs[p].input.email)
                    THEN Done(p, <<>>, None, <<"Email already exists">>,
                              "none")
                    ELSE [procs[p] EXCEPT !.pc = "clean"]]
    /\ UNCHANGED <<customers, products, orders, last, phonePool, clock>>

\* CreateCustomer.mutate, line 68: full_clean().
CustomerClean(p) ==
    /\ procs[p].kind = "CreateCustomer" /\ procs[p].pc = "clean"
    /\ LET d == procs[p].input
           errs == CustomerFullClean(customers, d.name, d.email, d.phone)
       IN  procs' = [procs EXCEPT ![p] =
                        IF errs # <<>>
                        THEN Done(p, <<>>, None, errs, "none")
                        ELSE [procs[p] EXCEPT !.pc = "save"]]
    /\ UNCHANGED <<customers, products, orders, last, phonePool, clock>>

\* CreateCustomer.mutate, line 69: save(), and the return.
CustomerSave(p) ==
    /\ procs[p].kind = "CreateCustomer" /\ procs[p].pc = "save"
    /\ LET d == procs[p].input
           ins == InsertCustomer(customers, d.name, d.email, d.phone)
           row == [r \in 1..Len(ins.row) |->
                      [ins.row[r] EXCEPT !.id = NextId(AllCustomerRows)]]
       IN  IF Blocked(p, d.email)
           THEN /\ procs' = [procs EXCEPT ![p] =
                                Done(p, <<>>, None, <<>>, "OperationalError")]
                /\ UNCHANGED customers
           ELSE IF ~ins.ok
           THEN /\ procs' = [procs EXCEPT ![p] =
                                Done(p, <<>>, None, <<>>, "IntegrityError")]
                /\ UNCHANGED customers
           ELSE /\ customers' = customers \cup Range(row)
                /\ procs' = [procs EXCEPT ![p] =
                                Done(p, row,
                                     Some("Customer created successfully"),
                                     <<>>, "none")]
    /\ UNCHANGED <<products, orders, last, phonePool, clock>>

\* BulkCreateCustomers.mutate, line 94, for row i; past the last row the
\* function returns and transaction.atomic commits the pending rows.
BulkCheck(p) ==
    /\ procs[p].kind = "BulkCreateCustomers" /\ procs[p].pc = "check"
    /\ LET me == procs[p]
       IN  IF me.i > Len(me.input)
           THEN /\ customers' = customers \cup me.pending
                /\ procs' = [procs EXCEPT ![p] =
                                Done(p, me.created, None, me.errors, "none")]
           ELSE /\ UNCHANGED customers
                /\ procs' = [procs EXCEPT ![p] =
                       IF EmailExists(Visible(p), me.input[me.i].email)
                       THEN [me EXCEPT
                               !.i = me.i + 1,
                               !.errors = Append(me.errors,
                                   me.input[me.i].email
                                   \o ": Email already exists")]
                       ELSE [me EXCEPT !.pc = "clean"]]
    /\ UNCHANGED <<products, orders, last, phonePool, clock>>

\* BulkCreateCustomers.mutate, line 103.
BulkClean(p) ==
    /\ procs[p].kind = "BulkCreateCustomers" /\ procs[p].pc = "clean"
    /\ LET me == procs[p]
           d == me.input[me.i]
           errs == CustomerFullClean(Visible(p), d.name, d.email, d.phone)
       IN  procs' = [procs EXCEPT ![p] =
                        IF errs # <<>>
                        THEN [me EXCEPT
                                !.pc = "check", !.i = me.i + 1,
                                !.errors = Append(me.errors,
                                    d.email \o ": " \o Join(errs, ", "))]
                        ELSE [me EXCEPT !.pc = "save"]]
    /\ UNCHANGED <<customers, products, orders, last, phonePool, clock>>

\* BulkCreateCustomers.mutate, lines 104-105; an exception leaves the
\* function and transaction.atomic rolls the pending rows back.
BulkSave(p) ==
    /\ procs[p].kind = "BulkCreateCustomers" /\ procs[p].pc = "save"
    /\ LET me == procs[p]
           d == me.input[me.i]
           ins == InsertCustomer(Visible(p), d.name, d.email, d.phone)
           row == [r \in 1..Len(ins.row) |->
                      [ins.row[r] EXCEPT !.id = NextId(AllCustomerRows)]]
       IN  IF Blocked(p, d.email)
           THEN procs' = [procs EXCEPT ![p] =
                             Done(p, <<>>, None, <<>>, "OperationalError")]
           ELSE IF ~ins.ok
           THEN procs' = [procs EXCEPT ![p] =
                             Done(p, <<>>, None, <<>>, "IntegrityError")]
           ELSE procs' = [procs EXCEPT ![p] =
                                [me EXCEPT !.pc = "check", !.i = me.i + 1,
                                           !.pending = me.pending
                                                       \cup Range(row),
                                           !.created = me.created \o row]]
    /\ UNCHANGED <<customers, products, orders, last, phonePool, clock>>

\* CreateOrder.mutate, lines 147-158: the customer and the products are
\* looked up and the total is computed.
OrderResolve(p) ==
    /\ procs[p].kind = "CreateOrder" /\ procs[p].pc = "check"
    /\ LET d == procs[p].input
           found == ProductsIn(products, d.product_ids)
       IN  procs' = [procs EXCEPT ![p] =
               IF ~IsNumber(d.customer_id)
               THEN Done(p, <<>>, None, <<>>, "ValueError")
               ELSE IF ~\E c \in customers : c.id = ToPk(d.customer_id)
               THEN Done(p, <<>>, None, <<"Invalid customer ID">>, "none")
               ELSE IF \E i \in 1..Len(d.product_ids) :
                          ~IsNumber(d.product_ids[i])
               THEN Done(p, <<>>, None, <<>>, "ValueError")
               ELSE IF found = {}
               THEN Done(p, <<>>, None, <<"No valid products found">>,
                         "none")
               ELSE IF Cardinality(found) # Len(d.product_ids)
               THEN Done(p, <<>>, None,
                         <<"One or more product IDs are invalid">>, "none")
               ELSE [procs[p] EXCEPT !.pc = "save", !.found = found]]
    /\ UNCHANGED <<customers, products, orders, last, phonePool, clock>>

\* CreateOrder.mutate, line 165: order.save() inserts the row and commits.
OrderSave(p) ==
    /\ procs[p].kind = "CreateOrder" /\ procs[p].pc = "save"
    /\ LET d == procs[p].input
           orderDate == IF d.order_date # None
                        THEN TheValue(d.order_date) ELSE clock
           saved == SaveOrder(orders, ToPk(d.customer_id),
                              SumPrices(procs[p].found), orderDate, clock)
       IN  IF ~saved.ok
           THEN /\ procs' = [procs EXCEPT ![p] =
                                Done(p, <<>>, None, <<>>, "ValueError")]
                /\ UNCHANGED orders
           ELSE /\ orders' = saved.rows
                /\ procs' = [procs EXCEPT ![p] =
                                [procs[p] EXCEPT !.pc = "set",
                                                 !.order = saved.row[1].id]]
    /\ UNCHANGED <<customers, products, last, phonePool, clock>>

\* CreateOrder.mutate, lines 166-168: order.products.set(products), and the
\* return.
OrderSetProducts(p) ==
    /\ procs[p].kind = "CreateOrder" /\ procs[p].pc = "set"
    /\ orders' = SetOrderProducts(orders, procs[p].order, procs[p].found)
    /\ procs' = [procs EXCEPT ![p] =
                    Done(p, <<CHOOSE r \in orders' : r.id = procs[p].order>>,
                         None, <<>>, "none")]
    /\ UNCHANGED <<customers, products, last, phonePool, clock>>

\* The statement of line 166 fails (the connection to the database is
\* lost): the exception leaves the handler, and nothing undoes line 165.
OrderSetProductsFails(p) ==
    /\ procs[p].kind = "CreateOrder" /\ procs[p].pc = "set"
    /\ procs' = [procs EXCEPT ![p] =
                    Done(p, <<>>, None, <<>>, "OperationalError")]
    /\ UNCHANGED <<customers, products, orders, last, phonePool, clock>>

\* Time passes.
Tick ==
    /\ clock < MaxTime
    /\ clock' = clock + 1
    /\ UNCHANGED <<customers, products, orders, last, phonePool, procs>>

\* The response goes back to the client, and the next request can come.
Reply ==
    /\ last # NoRequest
    /\ last' = NoRequest
    /\ UNCHANGED <<customers, products, orders, phonePool, procs, clock>>

Seeded ==
    /\ products = SeedProducts
    /\ orders = {}
    /\ last = NoRequest
    /\ procs = [p \in Procs |-> IdleProc]
    /\ clock = 1

\* The customer mutations.
InitCustomers ==
    /\ Seeded
    /\ customers = SeedCustomers
    /\ phonePool = {<<>>, SeedPhone, ShortPhone}

NextCustomers ==
    \/ CreateCustomer
    \/ BulkCreateCustomers
    \/ Reply

SpecCustomers == InitCustomers /\ [][NextCustomers]_vars

\* The product and order mutations, with the customers orders refer to.
InitOrders ==
    /\ Seeded
    /\ customers = SeedCustomers
    /\ phonePool = {SeedPhone}

NextOrders ==
    \/ CreateProduct
    \/ CreateOrder
    \/ Tick
    \/ Reply

SpecOrders == InitOrders /\ [][NextOrders]_vars

\* The phone validation, on one candidate string per behaviour.
InitPhone ==
    /\ Seeded
    /\ customers = SeedCustomers
    /\ phonePool \in {{ph} : ph \in PhoneCandidates}

NextPhone ==
    \/ CreateCustomer
    \/ Reply

SpecPhone == InitPhone /\ [][NextPhone]_vars

\* Customer requests handled concurrently.
InitConc ==
    /\ Seeded
    /\ customers = SeedCustomers
    /\ phonePool = {SeedPhone}

NextCustomersConc ==
    \E p \in Procs :
        \/ \E input \in ConcCustomerInputs :
               StartRequest(p, "CreateCustomer", input)
        \/ \E input \in ConcBulkInputs :
               StartRequest(p, "BulkCreateCustomers", input)
        \/ CustomerCheck(p)
        \/ CustomerClean(p)
        \/ CustomerSave(p)
        \/ BulkCheck(p)
        \/ BulkClean(p)
        \/ BulkSave(p)

SpecCustomersConc == InitConc /\ [][NextCustomersConc]_vars

\* Order requests handled concurrently.
NextOrdersConc ==
    \/ \E p \in Procs :
           \/ \E input \in ConcOrderInputs :
                  StartRequest(p, "CreateOrder", input)
           \/ OrderResolve(p)
           \/ OrderSave(p)
           \/ OrderSetProducts(p)
           \/ OrderSetProductsFails(p)
       \/ Tick

SpecOrdersConc == InitConc /\ [][NextOrdersConc]_vars

-----------------------------------------------------------------------------
(* Properties *)

\* This step handles a request of the kind op: last' is its response and
\* the unprimed variables are the database it found.
Handled(op) == last = NoRequest /\ last' # NoRequest /\ last'.op = op

OnlyDigits(s) ==
    \A i \in 1..Len(s) :
        s[i] \in {"0", "1", "2", "3", "4", "5", "6", "7", "8", "9"}

StartsWith(s, prefix) ==
    Len(s) >= Len(prefix) /\ SubSeq(s, 1, Len(prefix)) = prefix

\* '+' followed by 10 to 15 digits.
SignedNumber(s) ==
    /\ Len(s) >= 1
    /\ s[1] = "+"
    /\ Len(s) - 1 \in 10..15
    /\ OnlyDigits(Tail(s))

\* NNN-NNN-NNNN
DashedNumber(s) ==
    /\ Len(s) = 12
    /\ OnlyDigits(SubSeq(s, 1, 3) \o SubSeq(s, 5, 7) \o SubSeq(s, 9, 12))
    /\ s[4] = "-"
    /\ s[8] = "-"

ClaimedPhoneFormat(s) == SignedNumber(s) \/ DashedNumber(s)

\* 10 to 15 digits with or without a '+' before them, or NNN-NNN-NNNN, and
\* after either at most one newline.
AmendedPhoneFormat(s) ==
    LET t == IF Len(s) > 0 /\ s[Len(s)] = "\n"
             THEN SubSeq(s, 1, Len(s) - 1) ELSE s
    IN  \/ SignedNumber(t)
        \/ OnlyDigits(t) /\ Len(t) \in 10..15
        \/ DashedNumber(t)

StoredEmails(rows) == {r.email : r \in rows}

\* The input is valid as the specification describes it: a name, a
\* well-formed email, and a phone that is omitted or in an accepted format.
ValidCustomerInput(d) ==
    /\ d.name # ""
    /\ d.email \in {"a@x.com", "b@x.com", "test@example.com"}
    /\ IF d.phone = None THEN TRUE
       ELSE ClaimedPhoneFormat(TheValue(d.phone))

\* C5: a CreateCustomer with a valid input whose email is not stored yet
\* succeeds with the created record, the success message and no errors, and
\* the customers then hold exactly one record with that email.
C5_ValidFreshCustomerCreated ==
    [][(/\ Handled("CreateCustomer")
        /\ ValidCustomerInput(last'.input)
        /\ last'.input.email \notin StoredEmails(customers))
       => /\ last'.raised = "none"
          /\ last'.errors = <<>>
          /\ last'.message = Some("Customer created successfully")
          /\ Len(last'.result) = 1
          /\ last'.result[1].email = last'.input.email
          /\ Cardinality({c \in customers' :
                             c.email = last'.input.email}) = 1]_vars

\* C6: a CreateCustomer whose email is already stored answers exactly
\* ["Email already exists"], without a customer, and leaves the stored
\* customers as they were.
C6_DuplicateEmailRejected ==
    [][(/\ Handled("CreateCustomer")
        /\ \E c \in customers : c.email = last'.input.email)
       => /\ last'.errors = <<"Email already exists">>
          /\ last'.result = <<>>
          /\ last'.message = None
          /\ last'.raised = "none"
          /\ customers' = customers]_vars

\* A duplicate email was rejected although the name of the request is blank.
C6_Witness ==
    /\ last.op = "CreateCustomer"
    /\ last.errors = <<"Email already exists">>
    /\ last.input.name = ""
    /\ \E c \in customers : c.email = last.input.email

\* The rows of a batch that are to be accepted: valid, and with an email
\* that is neither stored nor accepted earlier in the batch.
RECURSIVE AcceptedRows(_, _, _)
AcceptedRows(input, i, present) ==
    IF i > Len(input) THEN {}
    ELSE IF ValidCustomerInput(input[i]) /\ input[i].email \notin present
    THEN {i} \cup AcceptedRows(input, i + 1, present \cup {input[i].email})
    ELSE AcceptedRows(input, i + 1, present)

\* C4: BulkCreateCustomers persists every row that is valid and whose email
\* is not present yet, reports one error that starts with the row's email
\* for every other row, grows the customers by the number of accepted rows,
\* and is never aborted or undone by a bad row.
C4_BulkRowsIndependent ==
    [][Handled("BulkCreateCustomers")
       => LET input == last'.input
              acc == AcceptedRows(input, 1, StoredEmails(customers))
              rej == SelectSeq([i \in 1..Len(input) |-> i],
                               LAMBDA i : i \notin acc)
          IN  /\ last'.raised = "none"
              /\ customers \subseteq customers'
              /\ StoredEmails(customers') =
                     StoredEmails(customers) \cup {input[i].email : i \in acc}
              /\ Cardinality(customers') =
                     Cardinality(customers) + Cardinality(acc)
              /\ Len(last'.result) = Cardinality(acc)
              /\ Len(last'.errors) = Len(rej)
              /\ \A k \in 1..Len(rej) :
                     k <= Len(last'.errors)
                     => StartsWith(last'.errors[k], input[rej[k]].email)]_vars

C3_UniqueEmail ==
    \A c1 \in customers : \A c2 \in customers :
        c1.email = c2.email => c1 = c2

\* A CreateCustomer passed the pre-check and full_clean(), and its insert
\* was then refused because a batch had stored the email in the meantime.
C3_Witness ==
    \E p \in Procs : \E q \in Procs :
        /\ procs[p].kind = "CreateCustomer"
        /\ procs[p].pc = "done"
        /\ procs[p].resp.raised = "IntegrityError"
        /\ procs[q].kind = "BulkCreateCustomers"
        /\ procs[q].pc = "done"
        /\ \E r \in Range(procs[q].resp.result) :
               r.email = procs[p].input.email /\ r \in customers

\* C2: no stored Order is without products.
C2_NoOrderWithoutProducts == \A o \in orders : o.products # {}

ExistingCustomerId(id) ==
    IsNumber(id) /\ \E c \in customers : c.id = ToPk(id)

ExistingProductId(id) ==
    IsNumber(id) /\ \E r \in products : r.id = ToPk(id)

PriceOfId(id) == (CHOOSE r \in products : r.id = ToPk(id)).price

RECURSIVE SumOfIds(_)
SumOfIds(ids) ==
    IF ids = <<>> THEN 0 ELSE PriceOfId(Head(ids)) + SumOfIds(Tail(ids))

MismatchMessage == "One or more product IDs are invalid"

C7_MismatchThenRetry ==
    [][(/\ Handled("CreateOrder")
        /\ ExistingCustomerId(last'.input.customer_id)
        /\ \E i \in 1..Len(last'.input.product_ids) :
               ExistingProductId(last'.input.product_ids[i])
        /\ \E i \in 1..Len(last'.input.product_ids) :
               ~ExistingProductId(last'.input.product_ids[i]))
       => /\ last'.errors = <<MismatchMessage>>
          /\ last'.raised = "none"
          /\ last'.result = <<>>
          /\ orders' = orders
          /\ LET fixed == SelectSeq(last'.input.product_ids,
                                    ExistingProductId)
                 retry == CreateOrderMutate(
                              customers', products', orders',
                              [last'.input EXCEPT !.product_ids = fixed],
                              clock')
             IN  /\ retry.resp.raised = "none"
                 /\ retry.resp.errors = <<>>
                 /\ orders' \subseteq retry.rows
                 /\ Cardinality(retry.rows \ orders') = 1]_vars

\* C8: the Order a CreateOrder stores has the orderDate of the input when
\* the input has one, and the time of creation when it has none.
C8_OrderDateAsSupplied ==
    [][(Handled("CreateOrder") /\ Len(last'.result) = 1)
       => /\ last'.result[1] \in orders'
          /\ last'.result[1].order_date =
                 IF last'.input.order_date # None
                 THEN TheValue(last'.input.order_date) ELSE clock]_vars

\* C10: a CreateOrder for an existing customer whose product ids all refer
\* to existing products, repeated or not, is never answered with the
\* mismatch error.
C10_MismatchOnlyForInvalidIds ==
    [][(/\ Handled("CreateOrder")
        /\ ExistingCustomerId(last'.input.customer_id)
        /\ \A i \in 1..Len(last'.input.product_ids) :
               ExistingProductId(last'.input.product_ids[i]))
       => MismatchMessage \notin Range(last'.errors)]_vars

=============================================================================
